---- MODULE Spec2Model ----
(***************************************************************************)
(* git-frisky: the diff/hunk model and the hunk-level staging engine of    *)
(* apps/desktop/src-tauri/src/api/repo.rs.                                 *)
(*                                                                         *)
(* A text is a sequence of atoms (integers).  Positive atoms stand for a   *)
(* piece of text without a newline; the atoms <= 0 are the characters the  *)
(* code and the patch format give a meaning to.                            *)
(***************************************************************************)
EXTENDS Integers, Sequences, FiniteSets, TLC

\* ------------------------------------------------------------------ bounds
BaseLen == 9        \* number of lines of the committed file "a"
MaxEdits == 2       \* working-directory edits in one behaviour
MaxOps == 4         \* repository commands in one behaviour
MaxCommits == 4     \* commits of a history given to log
MaxEvents == 4      \* events of a callback sequence given to the hunk extraction

\* ------------------------------------------------------- characters, types
NL == 0             \* '\n'
Space == -1         \* ' '  context prefix / origin
Plus == -2          \* '+'  addition prefix / origin
Minus == -3         \* '-'  deletion prefix / origin
Backslash == -4     \* '\\' first character of the no-newline marker line
NoNewlineMsg == -5  \* " No newline at end of file"
OriginCtxEofnl == -6    \* '='
OriginAddEofnl == -7    \* '>'
OriginDelEofnl == -8    \* '<'
OriginOther == -9       \* any other origin ('F', 'H', 'B')

ContextLines == 3

LineType == {"Context", "Addition", "Deletion"}

None == <<>>
Some(x) == <<x>>

Paths == {"a", "b"}

NoEntry == [lines |-> <<>>, nl |-> TRUE, mode |-> "none"]
Present(e) == e.mode # "none"

\* the text of line i of the committed file, and the texts an edit may insert
BaseFile == [i \in 1..BaseLen |-> <<i>>]

\* ------------------------------------------------------------ sequences
InSeq(x, s) == \E i \in 1..Len(s) : s[i] = x

RemoveAt(s, i) == SubSeq(s, 1, i - 1) \o SubSeq(s, i + 1, Len(s))
InsertAt(s, i, x) == SubSeq(s, 1, i - 1) \o <<x>> \o SubSeq(s, i, Len(s))

\* str.trim_end_matches('\n')
RECURSIVE TrimEndNL(_)
TrimEndNL(t) ==
    IF t # <<>> /\ t[Len(t)] = NL THEN TrimEndNL(SubSeq(t, 1, Len(t) - 1)) ELSE t

\* ------------------------------------------------------------ hunk model
IsAddOrCtx(l) == l.line_type \in {"Addition", "Context"}
IsDelOrCtx(l) == l.line_type \in {"Deletion", "Context"}
NewSideCount(lines) == Cardinality({i \in 1..Len(lines) : IsAddOrCtx(lines[i])})
OldSideCount(lines) == Cardinality({i \in 1..Len(lines) : IsDelOrCtx(lines[i])})

\* "@@ -s[,c] +s[,c] @@" as the diff primitive prints it: a count of 1 is left out
OptCount(c) == IF c = 1 THEN <<>> ELSE <<c>>
HeaderText(os, ol, ns, nl) == <<os, OptCount(ol), ns, OptCount(nl)>>

\* ------------------------------------------------- get_untracked_file_diff
UntrackedLinesZeroBased(lines) ==
    [idx \in 1..Len(lines) |->
        [content |-> lines[idx], line_type |-> "Addition",
         old_lineno |-> None, new_lineno |-> Some(idx - 1)]]

UntrackedLines(lines) ==
    [idx \in 1..Len(lines) |->
        [content |-> lines[idx], line_type |-> "Addition",
         old_lineno |-> None, new_lineno |-> Some(idx)]]

get_untracked_file_diff(wd) ==
    IF ~Present(wd) THEN [ok |-> FALSE, hunks |-> <<>>]
    ELSE LET line_count == Len(wd.lines) IN
         [ok |-> TRUE,
          hunks |-> << [header |-> <<0, <<0>>, 1, <<line_count>>>>,
                        old_start |-> 0, old_lines |-> 0,
                        new_start |-> 1, new_lines |-> line_count,
                        lines |-> UntrackedLines(wd.lines)] >>]

\* --------------------------------------------------- the diff primitive
\* The lines of a blob as the diff and apply primitives see them: the text
\* and whether a newline ends it (only the last line of a file may lack it).
ImageLines(e) ==
    [i \in 1..Len(e.lines) |->
        [text |-> e.lines[i], nl |-> (i < Len(e.lines) \/ e.nl)]]

\* The edit script between two images whose common lines are distinct and
\* in the same order: a removed block is printed before its replacement.
RECURSIVE EditScript(_, _)
EditScript(A, B) ==
    IF A = <<>> /\ B = <<>> THEN <<>>
    ELSE IF A # <<>> /\ B # <<>> /\ Head(A) = Head(B)
        THEN <<[origin |-> Space, line |-> Head(A)]>> \o EditScript(Tail(A), Tail(B))
    ELSE IF A # <<>> /\ ~InSeq(Head(A), B)
        THEN <<[origin |-> Minus, line |-> Head(A)]>> \o EditScript(Tail(A), B)
    ELSE <<[origin |-> Plus, line |-> Head(B)]>> \o EditScript(A, Tail(B))

ChangeIdx(S) == {i \in 1..Len(S) : S[i].origin # Space}

\* a change starts a hunk when more than 2 * context unchanged lines
\* separate it from the change before it
HunkStarts(S) ==
    {i \in ChangeIdx(S) :
        \A j \in ChangeIdx(S) : j < i => i - j - 1 > 2 * ContextLines
                                          \/ \E k \in ChangeIdx(S) : j < k /\ k < i}

HunkLastChange(S, s) ==
    LET later == {t \in HunkStarts(S) : t > s}
        lim == IF later = {} THEN Len(S) + 1
               ELSE CHOOSE t \in later : \A u \in later : t <= u
        mine == {i \in ChangeIdx(S) : s <= i /\ i < lim}
    IN CHOOSE i \in mine : \A j \in mine : j <= i

Max(a, b) == IF a > b THEN a ELSE b
Min(a, b) == IF a < b THEN a ELSE b

EofnlOrigin(origin) ==
    IF origin = Plus THEN OriginDelEofnl
    ELSE IF origin = Minus THEN OriginAddEofnl
    ELSE OriginCtxEofnl

LineEvent(origin, content) ==
    [kind |-> "line", origin |-> origin, content |-> content,
     header |-> [lead |-> <<>>, text |-> <<>>, trail |-> <<>>],
     old_start |-> 0, old_lines |-> 0, new_start |-> 0, new_lines |-> 0]

\* The header text as the diff primitive hands it over: the "@@ .. @@" text
\* between the whitespace before and after it (a newline ends it).
RawHeader(lead, text, trail) == [lead |-> lead, text |-> text, trail |-> trail]

\* str.trim(): the text without the whitespace around it
Trim(raw) == raw.text

HunkEvent(os, ol, ns, nl) ==
    [kind |-> "hunk", origin |-> Space, content |-> <<>>,
     header |-> RawHeader(<<>>, HeaderText(os, ol, ns, nl), <<NL>>),
     old_start |-> os, old_lines |-> ol, new_start |-> ns, new_lines |-> nl]

\* the line events of script item it: the line, then the marker event when
\* no newline ends the line
ScriptLineEvents(it) ==
    IF it.line.nl THEN << LineEvent(it.origin, it.line.text \o <<NL>>) >>
    ELSE << LineEvent(it.origin, it.line.text),
            LineEvent(EofnlOrigin(it.origin), <<NL, Backslash, NoNewlineMsg, NL>>) >>

RECURSIVE FlatLineEvents(_)
FlatLineEvents(items) ==
    IF items = <<>> THEN <<>>
    ELSE ScriptLineEvents(Head(items)) \o FlatLineEvents(Tail(items))

HunkEventsAt(S, s) ==
    LET lo == Max(1, s - ContextLines)
        hi == Min(Len(S), HunkLastChange(S, s) + ContextLines)
        oldBefore == Cardinality({k \in 1..(lo - 1) : S[k].origin # Plus})
        newBefore == Cardinality({k \in 1..(lo - 1) : S[k].origin # Minus})
        ol == Cardinality({k \in lo..hi : S[k].origin # Plus})
        nl == Cardinality({k \in lo..hi : S[k].origin # Minus})
        os == IF ol = 0 THEN oldBefore ELSE oldBefore + 1
        ns == IF nl = 0 THEN newBefore ELSE newBefore + 1
    IN << HunkEvent(os, ol, ns, nl) >> \o FlatLineEvents(SubSeq(S, lo, hi))

RECURSIVE EventsFrom(_, _)
EventsFrom(S, starts) ==
    IF starts = {} THEN <<>>
    ELSE LET s == CHOOSE t \in starts : \A u \in starts : t <= u
         IN HunkEventsAt(S, s) \o EventsFrom(S, starts \ {s})

\* diff(surfaceA, surfaceB, path, context 3): hunk-start and line events in
\* the order Diff::foreach delivers them
DiffEvents(old, new) ==
    LET S == EditScript(ImageLines(old), ImageLines(new))
    IN EventsFrom(S, HunkStarts(S))

\* ----------------------------------------- get_diff: the foreach callbacks
NoHunk == <<>>

HunkCb(st, ev) ==
    [hunks |-> IF st.current # NoHunk THEN st.hunks \o st.current ELSE st.hunks,
     current |-> << [header |-> Trim(ev.header),
                     old_start |-> ev.old_start, old_lines |-> ev.old_lines,
                     new_start |-> ev.new_start, new_lines |-> ev.new_lines,
                     lines |-> <<>>] >>,
     old_lineno |-> ev.old_start,
     new_lineno |-> ev.new_start]

PushLine(st, line_type, old_line, new_line, content, dOld, dNew) ==
    [st EXCEPT !.current[1].lines =
                   Append(@, [content |-> TrimEndNL(content), line_type |-> line_type,
                              old_lineno |-> old_line, new_lineno |-> new_line]),
               !.old_lineno = @ + dOld,
               !.new_lineno = @ + dNew]

LineCb(st, ev) ==
    IF st.current = NoHunk THEN st
    ELSE IF ev.origin \in {Plus, OriginAddEofnl}
        THEN PushLine(st, "Addition", None, Some(st.new_lineno), ev.content, 0, 1)
    ELSE IF ev.origin \in {Minus, OriginDelEofnl}
        THEN PushLine(st, "Deletion", Some(st.old_lineno), None, ev.content, 1, 0)
    ELSE IF ev.origin \in {Space, OriginCtxEofnl}
        THEN PushLine(st, "Context", Some(st.old_lineno), Some(st.new_lineno),
                      ev.content, 1, 1)
    ELSE st

RECURSIVE Foreach(_, _)
Foreach(st, events) ==
    IF events = <<>> THEN st
    ELSE Foreach(IF Head(events).kind = "hunk" THEN HunkCb(st, Head(events))
                 ELSE LineCb(st, Head(events)),
                 Tail(events))

\* the callbacks without the push of the last hunk after them
ExtractHunksNoFlush(events) ==
    Foreach([hunks |-> <<>>, current |-> NoHunk,
             old_lineno |-> 0, new_lineno |-> 0], events).hunks

ExtractHunks(events) ==
    LET st == Foreach([hunks |-> <<>>, current |-> NoHunk,
                       old_lineno |-> 0, new_lineno |-> 0], events)
    IN IF st.current # NoHunk THEN st.hunks \o st.current ELSE st.hunks

\* An index entry of a path in conflict: the path has entries of the stages
\* 1 to 3 and none of stage 0; the model keeps "ours", stage 2.
ConflictEntry(e) == [lines |-> e.lines, nl |-> e.nl, mode |-> e.mode, stage |-> 2]
StageOf(e) == IF "stage" \in DOMAIN e THEN e.stage ELSE 0

\* index.get_path(path, stage)
get_path(ix, stage) == IF Present(ix) /\ StageOf(ix) = stage THEN Some(ix) ELSE None

\* get_diff(repo, rel_path, staged) on the three surfaces of one path
get_diff(hd, ix, wd, staged) ==
    LET is_tracked == get_path(ix, 0) # None
        synthesized == get_untracked_file_diff(wd)
    IN IF ~staged /\ ~is_tracked
       THEN [ok |-> synthesized.ok, hunks |-> synthesized.hunks, untracked |-> TRUE]
       ELSE IF staged
       THEN [ok |-> TRUE, hunks |-> ExtractHunks(DiffEvents(hd, ix)), untracked |-> FALSE]
       ELSE [ok |-> TRUE, hunks |-> ExtractHunks(DiffEvents(ix, wd)), untracked |-> FALSE]

\* ------------------------------------------------------- patch synthesis
EndsWithNL(t) == t # <<>> /\ t[Len(t)] = NL

\* push(prefix); push_str(content); push('\n') unless the content ends with one
PatchLineText(prefix, content) ==
    <<prefix>> \o content \o (IF EndsWithNL(content) THEN <<>> ELSE <<NL>>)

StagePrefix(line_type) ==
    IF line_type = "Addition" THEN Plus
    ELSE IF line_type = "Deletion" THEN Minus
    ELSE Space

UnstagePrefix(line_type) ==
    IF line_type = "Addition" THEN Minus
    ELSE IF line_type = "Deletion" THEN Plus
    ELSE Space

RECURSIVE StageBody(_)
StageBody(lines) ==
    IF lines = <<>> THEN <<>>
    ELSE PatchLineText(StagePrefix(Head(lines).line_type), Head(lines).content)
         \o StageBody(Tail(lines))

RECURSIVE UnstageBody(_)
UnstageBody(lines) ==
    IF lines = <<>> THEN <<>>
    ELSE PatchLineText(UnstagePrefix(Head(lines).line_type), Head(lines).content)
         \o UnstageBody(Tail(lines))

\* the patch text after its three file header lines: the hunk header line
\* and the text of the hunk lines
StagePatchText(hunk) == [header |-> hunk.header, body |-> StageBody(hunk.lines)]

\* format!("@@ -{},{} +{},{} @@", new_start, new_lines, old_start, old_lines)
reversed_header(hunk) ==
    <<hunk.new_start, <<hunk.new_lines>>, hunk.old_start, <<hunk.old_lines>>>>

UnstagePatchText(hunk) ==
    [header |-> reversed_header(hunk), body |-> UnstageBody(hunk.lines)]

\* ------------------------------------------- Diff::from_buffer (the parser)
\* the newline-terminated lines of a text (each without its newline)
RECURSIVE SplitLines(_, _)
SplitLines(text, cur) ==
    IF text = <<>> THEN (IF cur = <<>> THEN <<>> ELSE <<cur>>)
    ELSE IF Head(text) = NL THEN <<cur>> \o SplitLines(Tail(text), <<>>)
    ELSE SplitLines(Tail(text), Append(cur, Head(text)))

MalformedHeader == <<>>

\* "@@ -a[,b] +c[,d] @@": a count left out is 1
ParseHunkHeader(h) ==
    IF h = MalformedHeader THEN [ok |-> FALSE]
    ELSE [ok |-> TRUE,
          old_start |-> h[1], old_lines |-> IF h[2] = <<>> THEN 1 ELSE h[2][1],
          new_start |-> h[3], new_lines |-> IF h[4] = <<>> THEN 1 ELSE h[4][1]]

ParseError == [ok |-> FALSE, lines |-> <<>>]

ParsedLine(origin, text) == [origin |-> origin, text |-> text]

\* The hunk body: lines are taken while the header's counts are not both
\* used up; a line that is none of ' ', '-', '+', empty, or the marker once
\* no old line is left, is an error; so are counts left over at the end.
\* A marker line right after the body belongs to the hunk.  What follows
\* is not part of the patch and is skipped.
RECURSIVE ParseHunkBody(_, _, _, _)
ParseHunkBody(rest, oldlines, newlines, acc) ==
    IF rest # <<>> /\ ~(Len(rest) = 1 /\ rest[1] = <<>>) /\ (oldlines # 0 \/ newlines # 0)
    THEN LET l == Head(rest) IN
         IF l = <<>>
            THEN ParseHunkBody(Tail(rest), oldlines - 1, newlines - 1,
                               Append(acc, ParsedLine(Space, <<>>)))
         ELSE IF l[1] = Space
            THEN ParseHunkBody(Tail(rest), oldlines - 1, newlines - 1,
                               Append(acc, ParsedLine(Space, Tail(l))))
         ELSE IF l[1] = Minus
            THEN ParseHunkBody(Tail(rest), oldlines - 1, newlines,
                               Append(acc, ParsedLine(Minus, Tail(l))))
         ELSE IF l[1] = Plus
            THEN ParseHunkBody(Tail(rest), oldlines, newlines - 1,
                               Append(acc, ParsedLine(Plus, Tail(l))))
         ELSE IF l[1] = Backslash /\ oldlines = 0
            THEN ParseHunkBody(Tail(rest), oldlines, newlines,
                               Append(acc, ParsedLine(Backslash, l)))
         ELSE ParseError
    ELSE IF oldlines # 0 \/ newlines # 0 THEN ParseError
    ELSE IF rest # <<>> /\ Head(rest) # <<>> /\ Head(rest)[1] = Backslash /\ acc # <<>>
        THEN [ok |-> TRUE, lines |-> Append(acc, ParsedLine(Backslash, Head(rest)))]
    ELSE [ok |-> TRUE, lines |-> acc]

from_buffer(patch) ==
    LET h == ParseHunkHeader(patch.header) IN
    IF ~h.ok THEN [ok |-> FALSE, new_start |-> 0, lines |-> <<>>]
    ELSE LET b == ParseHunkBody(SplitLines(patch.body, <<>>), h.old_lines, h.new_lines, <<>>)
         IN [ok |-> b.ok, new_start |-> h.new_start, lines |-> b.lines]

\* ------------------------------------ repo.apply(diff, ApplyLocation::Index)
\* a marker line takes the newline off the line before it
HunkImage(plines, origins) ==
    LET keep == {i \in 1..Len(plines) : plines[i].origin \in origins}
        F[i \in 0..Len(plines)] ==
            IF i = 0 THEN <<>>
            ELSE IF i \in keep
                THEN Append(F[i - 1],
                            [text |-> plines[i].text,
                             nl |-> ~(i < Len(plines) /\ plines[i + 1].origin = Backslash)])
            ELSE F[i - 1]
    IN F[Len(plines)]

\* the bytes of the image lines, read again as the lines of a blob
RECURSIVE JoinImage(_, _)
JoinImage(img, cur) ==
    IF img = <<>> THEN (IF cur = <<>> THEN [lines |-> <<>>, nl |-> TRUE]
                        ELSE [lines |-> <<cur>>, nl |-> FALSE])
    ELSE IF Head(img).nl
        THEN LET r == JoinImage(Tail(img), <<>>)
             IN [lines |-> <<cur \o Head(img).text>> \o r.lines, nl |-> r.nl]
    ELSE JoinImage(Tail(img), cur \o Head(img).text)

ApplyPosition(new_start, max) ==
    LET line_num == IF new_start # 0 THEN new_start - 1 ELSE 0
    IN IF line_num > max THEN max ELSE line_num

match_hunk(image, preimage, linenum) ==
    /\ Len(preimage) + linenum <= Len(image)
    /\ \A i \in 1..Len(preimage) : preimage[i] = image[linenum + i]

\* the entry of the path after the patch, or failure with no entry written
apply(ix, diff) ==
    IF ~diff.ok \/ ~Present(ix) THEN [ok |-> FALSE, entry |-> ix]
    ELSE LET image == ImageLines(ix)
             preimage == HunkImage(diff.lines, {Space, Minus})
             postimage == HunkImage(diff.lines, {Space, Plus})
             line_num == ApplyPosition(diff.new_start, Len(image))
         IN IF ~match_hunk(image, preimage, line_num) THEN [ok |-> FALSE, entry |-> ix]
            ELSE LET out == SubSeq(image, 1, line_num) \o postimage
                            \o SubSeq(image, line_num + Len(preimage) + 1, Len(image))
                     blob == JoinImage(out, <<>>)
                 IN [ok |-> TRUE,
                     entry |-> [lines |-> blob.lines, nl |-> blob.nl, mode |-> ix.mode]]

\* ApplyLocation::Index: the preimage is read from the index and the result
\* is written to the index alone
ApplyLocationBoth == "Both"

ApplyLocation == "Index"

\* repo.apply(&diff, location, None) for the patch of one path
repo_apply(ix, wd, p, diff, location) ==
    LET r == apply(IF location = "WorkDir" THEN wd[p] ELSE ix[p], diff) IN
    [ok |-> r.ok,
     index |-> IF r.ok /\ location \in {"Index", "Both"}
               THEN [ix EXCEPT ![p] = r.entry] ELSE ix,
     workdir |-> IF r.ok /\ location \in {"WorkDir", "Both"}
                 THEN [wd EXCEPT ![p] = r.entry] ELSE wd]

stage_hunk(ix, wd, file_path, hunk) ==
    repo_apply(ix, wd, file_path, from_buffer(StagePatchText(hunk)), ApplyLocation)

unstage_hunk(ix, wd, file_path, hunk) ==
    repo_apply(ix, wd, file_path, from_buffer(UnstagePatchText(hunk)), ApplyLocation)

\* --------------------------------------------------- whole-file stage/unstage
\* index.add_path for each path, then index.write(): an error returns before
\* the write, and the index file keeps its entries
RECURSIVE AddPaths(_, _, _)
AddPaths(ix, wd, paths) ==
    IF paths = <<>> THEN [ok |-> TRUE, index |-> ix]
    ELSE IF ~Present(wd[Head(paths)]) THEN [ok |-> FALSE, index |-> ix]
    ELSE AddPaths([ix EXCEPT ![Head(paths)] = wd[Head(paths)]], wd, Tail(paths))

\* a stage that writes the index as it is when a path fails
stage_partial(ix, wd, paths) == AddPaths(ix, wd, paths)

stage(ix, wd, paths) ==
    LET r == AddPaths(ix, wd, paths)
    IN IF r.ok THEN r ELSE [ok |-> FALSE, index |-> ix]

\* repo.head().and_then(|h| h.peel_to_tree()).ok()
HeadTree(hd) == IF hd.unborn THEN None ELSE Some(hd.tree)

RECURSIVE ResetPathsKeepMode(_, _, _)
ResetPathsKeepMode(ix, head_tree, paths) ==
    IF paths = <<>> THEN ix
    ELSE LET path == Head(paths) IN
         IF head_tree # None /\ Present(head_tree[1][path])
         THEN ResetPathsKeepMode(
                  [ix EXCEPT ![path] =
                      [head_tree[1][path] EXCEPT
                          !.mode = IF Present(ix[path]) THEN ix[path].mode ELSE @]],
                  head_tree, Tail(paths))
         ELSE ResetPathsKeepMode([ix EXCEPT ![path] = NoEntry], head_tree, Tail(paths))

RECURSIVE ResetPaths(_, _, _)
ResetPaths(ix, head_tree, paths) ==
    IF paths = <<>> THEN ix
    ELSE LET path == Head(paths) IN
         IF head_tree # None /\ Present(head_tree[1][path])
         THEN \* remove_path, then add_frombuffer with the tree entry's blob and mode
              ResetPaths([ix EXCEPT ![path] = head_tree[1][path]], head_tree, Tail(paths))
         ELSE \* remove_path alone: not in the tree, or no commit yet
              ResetPaths([ix EXCEPT ![path] = NoEntry], head_tree, Tail(paths))

unstage(hd, ix, paths) == [ok |-> TRUE, index |-> ResetPaths(ix, HeadTree(hd), paths)]

\* unstage in a repository where repo.find_blob fails for the paths of
\* `missing`: the loop returns at the first such path that the last commit
\* has, before index.write(), and the index file keeps its entries
RECURSIVE ResetFound(_, _, _, _)
ResetFound(ix, head_tree, paths, missing) ==
    IF paths = <<>> THEN [ok |-> TRUE, index |-> ix]
    ELSE LET path == Head(paths) IN
         IF head_tree # None /\ Present(head_tree[1][path])
         THEN IF path \in missing THEN [ok |-> FALSE, index |-> ix]
              ELSE ResetFound([ix EXCEPT ![path] = head_tree[1][path]],
                              head_tree, Tail(paths), missing)
         ELSE ResetFound([ix EXCEPT ![path] = NoEntry], head_tree, Tail(paths), missing)

unstage_found(hd, ix, paths, missing) ==
    LET r == ResetFound(ix, HeadTree(hd), paths, missing)
    IN IF r.ok THEN r ELSE [ok |-> FALSE, index |-> ix]

\* -------------------------------------------------------------------- status
\* the flags of git2::Status that repo.statuses can give a path
IndexFlags == {"INDEX_NEW", "INDEX_MODIFIED", "INDEX_DELETED", "INDEX_RENAMED",
               "INDEX_TYPECHANGE"}
WtFlags == {"WT_NEW", "WT_MODIFIED", "WT_DELETED", "WT_TYPECHANGE", "WT_RENAMED"}
StatusFlags == IndexFlags \cup WtFlags \cup {"WT_UNREADABLE", "IGNORED", "CONFLICTED"}

\* repo.statuses with include_untracked, recurse_untracked_dirs and
\* StatusShow::IndexAndWorkdir: one entry per path that is not clean, in path
\* order, with the flags of its last commit to index and index to working
\* directory differences
PathOrder == <<"a", "b">>

IndexStatus(h, i) ==
    IF ~Present(h) /\ Present(i) THEN {"INDEX_NEW"}
    ELSE IF Present(h) /\ ~Present(i) THEN {"INDEX_DELETED"}
    ELSE IF h # i THEN {"INDEX_MODIFIED"}
    ELSE {}

WorkdirStatus(i, w) ==
    IF ~Present(i) /\ Present(w) THEN {"WT_NEW"}
    ELSE IF Present(i) /\ ~Present(w) THEN {"WT_DELETED"}
    ELSE IF i # w THEN {"WT_MODIFIED"}
    ELSE {}

TreeEntry(hd, p) == IF hd.unborn THEN NoEntry ELSE hd.tree[p]

Statuses(hd, ix, wd) ==
    LET Flags(p) == IndexStatus(TreeEntry(hd, p), ix[p]) \cup WorkdirStatus(ix[p], wd[p])
        NotClean(p) == Flags(p) # {}
        listed == SelectSeq(PathOrder, NotClean)
    IN [k \in 1..Len(listed) |-> [path |-> listed[k], flags |-> Flags(listed[k])]]

FileChange(path, status) ==
    [path |-> path, status |-> status, old_path |-> None,
     additions |-> 0, deletions |-> 0]

StagedChangesModifiedFirst(path, status_flags) ==
    IF "INDEX_MODIFIED" \in status_flags THEN <<FileChange(path, "M")>>
    ELSE IF "INDEX_NEW" \in status_flags THEN <<FileChange(path, "A")>>
    ELSE IF "INDEX_DELETED" \in status_flags THEN <<FileChange(path, "D")>>
    ELSE IF "INDEX_RENAMED" \in status_flags THEN <<FileChange(path, "R")>>
    ELSE <<>>

\* what one entry adds to the staged bucket
StagedChanges(path, status_flags) ==
    IF "INDEX_NEW" \in status_flags THEN <<FileChange(path, "A")>>
    ELSE IF "INDEX_MODIFIED" \in status_flags THEN <<FileChange(path, "M")>>
    ELSE IF "INDEX_DELETED" \in status_flags THEN <<FileChange(path, "D")>>
    ELSE IF "INDEX_RENAMED" \in status_flags THEN <<FileChange(path, "R")>>
    ELSE <<>>

UnstagedChangesUnlessStaged(path, status_flags) ==
    IF status_flags \cap IndexFlags # {} THEN <<>>
    ELSE IF "WT_NEW" \in status_flags THEN <<FileChange(path, "U")>>
    ELSE IF "WT_MODIFIED" \in status_flags THEN <<FileChange(path, "M")>>
    ELSE IF "WT_DELETED" \in status_flags THEN <<FileChange(path, "D")>>
    ELSE IF "WT_RENAMED" \in status_flags THEN <<FileChange(path, "R")>>
    ELSE <<>>

\* what one entry adds to the unstaged bucket: its working-tree change, then
\* its conflict
UnstagedChanges(path, status_flags) ==
    IF "WT_NEW" \in status_flags THEN <<FileChange(path, "U")>>
    ELSE IF "WT_MODIFIED" \in status_flags THEN <<FileChange(path, "M")>>
    ELSE IF "WT_DELETED" \in status_flags THEN <<FileChange(path, "D")>>
    ELSE IF "WT_RENAMED" \in status_flags THEN <<FileChange(path, "R")>>
    ELSE <<>>

ConflictChangesIfAlone(path, status_flags) ==
    IF "CONFLICTED" \in status_flags /\ status_flags \cap WtFlags = {}
    THEN <<FileChange(path, "C")>> ELSE <<>>

ConflictChanges(path, status_flags) ==
    IF "CONFLICTED" \in status_flags THEN <<FileChange(path, "C")>> ELSE <<>>

RECURSIVE StatusLoop(_, _)
StatusLoop(statuses, acc) ==
    IF statuses = <<>> THEN acc
    ELSE LET entry == Head(statuses) IN
         StatusLoop(Tail(statuses),
            [staged |-> acc.staged \o StagedChanges(entry.path, entry.flags),
             unstaged |-> acc.unstaged
                            \o UnstagedChanges(entry.path, entry.flags)
                            \o ConflictChanges(entry.path, entry.flags)])

\* status, given what repo.statuses answered
status(statuses) == StatusLoop(statuses, [staged |-> <<>>, unstaged |-> <<>>])

\* --------------------------------------------------------------------- watch
\* the paths start_watch is given: two repositories, a directory without
\* .git, and a path that does not exist
WatchPaths == {"repo", "other", "dir", "gone"}
PathExists(path) == path # "gone"
HasGitDir(path) == path \in {"repo", "other"}

\* a stop that empties the slot without dropping the watcher
stop_watch_forget(w) == [ok |-> TRUE, watcher |-> [w EXCEPT !.slot = None]]

\* *watcher = None: the watcher in the slot is dropped, which stops it
stop_watch(w) ==
    [ok |-> TRUE,
     watcher |-> [w EXCEPT !.slot = None, !.live = w.live \ {w.slot[k] : k \in 1..Len(w.slot)}]]

\* a start that stops the running watcher before it looks at the path
start_watch_stop_first(w, path, created, watched) ==
    LET stopped == stop_watch(w).watcher
        debouncer == [id |-> w.made + 1, path |-> path, git_dir |-> HasGitDir(path)]
    IN IF ~PathExists(path) \/ ~created THEN [ok |-> FALSE, watcher |-> stopped]
       ELSE IF ~watched
            THEN [ok |-> FALSE, watcher |-> [stopped EXCEPT !.made = w.made + 1]]
       ELSE [ok |-> TRUE,
             watcher |-> [slot |-> Some(debouncer),
                          live |-> stopped.live \cup {debouncer},
                          made |-> w.made + 1]]

\* created: new_debouncer succeeds; watched: every watch() call succeeds
start_watch(w, path, created, watched) ==
    IF ~PathExists(path) THEN [ok |-> FALSE, watcher |-> w]
    ELSE LET stopped == stop_watch(w).watcher
             debouncer == [id |-> w.made + 1, path |-> path, git_dir |-> HasGitDir(path)]
         IN IF ~created THEN [ok |-> FALSE, watcher |-> stopped]
            ELSE IF ~watched
                 THEN [ok |-> FALSE, watcher |-> [stopped EXCEPT !.made = w.made + 1]]
            ELSE [ok |-> TRUE,
                  watcher |-> [slot |-> Some(debouncer),
                               live |-> stopped.live \cup {debouncer},
                               made |-> w.made + 1]]

\* -------------------------------------------------------------------- commit
RepositoryStates == {"Clean", "Merge", "Rebase", "Revert", "CherryPick", "Bisect"}

\* a gate that stops a commit during a merge only
StateBlockedMergeOnly(st) == st = "Merge"

\* repo.state() != RepositoryState::Clean
StateBlocked(st) == st # "Clean"

\* repo.is_empty(): HEAD is unborn and there is no reference
is_empty(hd, rf) == hd.unborn /\ rf.locals = <<>> /\ rf.remotes = <<>>

EmptyTree == [p \in Paths |-> NoEntry]

\* diff_tree_to_index(head_tree, index) has no delta
NothingToCommit(head_tree, ix) ==
    ix = (IF head_tree = None THEN EmptyTree ELSE head_tree[1])

\* a commit that is written and leaves HEAD and its branch where they were
AdvanceNothing(rf, oid) == rf

\* HEAD and its branch after repo.commit(Some("HEAD"), ..)
Advance(rf, oid) ==
    [rf EXCEPT !.HEAD = [read |-> "ok", target |-> Some(oid)],
               !.locals = IF rf.locals = <<>> THEN <<[read |-> "ok", target |-> Some(oid)]>>
                          ELSE [rf.locals EXCEPT ![1] = [read |-> "ok", target |-> Some(oid)]]]

commit(st, signature, hd, ix, cs, rf) ==
    LET failed == [ok |-> FALSE, head |-> hd, commits |-> cs, refs |-> rf]
        empty == is_empty(hd, rf)
        head_tree == IF empty THEN None ELSE Some(hd.tree)
        parents == IF empty THEN <<>> ELSE <<rf.HEAD.target[1]>>
        oid == Len(cs) + 1
    IN IF StateBlocked(st) THEN failed
       ELSE IF ~signature THEN failed
       ELSE IF ~empty /\ hd.unborn THEN failed             \* repo.head() fails
       ELSE IF NothingToCommit(head_tree, ix) THEN failed
       ELSE [ok |-> TRUE,
             head |-> [unborn |-> FALSE, tree |-> ix],
             commits |-> Append(cs, [parents |-> parents, time |-> oid]),
             refs |-> Advance(rf, oid)]

\* ----------------------------------------------------------------------- log
DefaultLimit == 500

ToSet(sq) == {sq[i] : i \in 1..Len(sq)}

\* the targets of the branch entries the loop pushes: none if the enumeration
\* failed, else those of the entries that could be read and have a target
Tips(enumerated, entries) ==
    LET Pushed(e) == e.read = "ok" /\ e.target # None
        sel == SelectSeq(entries, Pushed)
    IN IF enumerated THEN [k \in 1..Len(sel) |-> sel[k].target[1]] ELSE <<>>

BranchTips(rf) == Tips(rf.locals_ok, rf.locals) \o Tips(rf.remotes_ok, rf.remotes)

\* roots that always include HEAD's target
RootsWithHead(rf) ==
    BranchTips(rf) \o
        (IF rf.HEAD.read = "ok" /\ rf.HEAD.target # None THEN <<rf.HEAD.target[1]>> ELSE <<>>)

\* the roots of the walk: the branch tips, or HEAD's target when there is none
Roots(rf) ==
    IF BranchTips(rf) # <<>> THEN BranchTips(rf)
    ELSE IF rf.HEAD.read = "ok" /\ rf.HEAD.target # None THEN <<rf.HEAD.target[1]>>
    ELSE <<>>

\* the commits the walk visits: the roots and all their ancestors
RECURSIVE Closure(_, _)
Closure(cs, set) ==
    LET next == set \cup UNION {ToSet(cs[c].parents) : c \in set}
    IN IF next = set THEN set ELSE Closure(cs, next)

\* a walk without Sort::TIME: the visited commits in any order
RECURSIVE RevwalkOrdersUnsorted(_, _)
RevwalkOrdersUnsorted(cs, set) ==
    IF set = {} THEN {<<>>}
    ELSE UNION {{<<c>> \o rest : rest \in RevwalkOrdersUnsorted(cs, set \ {c})} : c \in set}

\* Sort::TIME: the orders of the visited commits by commit time, newest
\* first; the order of commits of the same time is not determined
RECURSIVE RevwalkOrders(_, _)
RevwalkOrders(cs, set) ==
    IF set = {} THEN {<<>>}
    ELSE LET newest == {c \in set : \A d \in set : cs[c].time >= cs[d].time}
         IN UNION {{<<c>> \o rest : rest \in RevwalkOrders(cs, set \ {c})} : c \in newest}

Take(sq, n) == SubSeq(sq, 1, Min(n, Len(sq)))

CommitOf(cs, oid) ==
    [oid |-> oid, timestamp |-> cs[oid].time, parents |-> cs[oid].parents]

\* the answers log may give
log(cs, rf, limit) ==
    LET n == IF limit = None THEN DefaultLimit ELSE limit[1]
        roots == Roots(rf)
    IN IF \E r \in ToSet(roots) : r \notin DOMAIN cs
       THEN {[ok |-> FALSE, commits |-> <<>>]}       \* revwalk.push fails
       ELSE IF roots = <<>> THEN {[ok |-> TRUE, commits |-> <<>>]}
       ELSE {[ok |-> TRUE,
              commits |-> [k \in 1..Len(Take(order, n)) |-> CommitOf(cs, order[k])]] :
                order \in RevwalkOrders(cs, Closure(cs, ToSet(roots)))}

\* ===================================================================== state
VARIABLES
    head,       \* the last commit: [unborn, tree], tree: path -> entry
    index,      \* the staging area: path -> entry
    workdir,    \* the working directory: path -> entry
    view,       \* the client's copy of the last get_diff answer
    last,       \* the last step taken and what it returned
    pre,        \* head, index and workdir before the last step
    edits,      \* working-directory edits so far
    ops,        \* repository commands so far
    repo_state, \* repo.state(): an operation such as a merge in progress, or Clean
    commits,    \* the commits, oldest first: commit i is [parents, time]
    refs,       \* the branch entries (local, remote) and HEAD
    out,        \* what the last status, log or commit was given and returned
    watcher,    \* WatcherState: the slot behind the lock and the live watchers
    calls       \* the whole-file calls that run at the same time, each with
                \* its own repository handle and copy of the index

vars == <<head, index, workdir, view, last, pre, edits, ops,
          repo_state, commits, refs, out, watcher, calls>>

\* what the diff and staging commands neither read nor write
others == <<repo_state, commits, refs, out, watcher, calls>>

File(lines, nl, mode) == [lines |-> lines, nl |-> nl, mode |-> mode]

Snapshot ==
    [head |-> head, index |-> index, workdir |-> workdir,
     commits |-> commits, refs |-> refs, watcher |-> watcher]

NoView == [path |-> "a", staged |-> FALSE, ok |-> FALSE, hunks |-> <<>>, untracked |-> FALSE]

Step(op, path, paths, hunk, ret) ==
    [op |-> op, path |-> path, paths |-> paths, hunk |-> hunk, ret |-> ret,
     roundtrip |-> FALSE, origin |-> NoEntry, fresh |-> FALSE]

Ret(ok) == IF ok THEN "ok" ELSE "err"

\* ------------------------------------------------------------ initial states
BaseEntry == File(BaseFile, TRUE, "100644")
OtherEntry == File(<<<<BaseLen + MaxEdits + 1>>>>, TRUE, "100644")

\* "a" with its first line removed and one line added at its end
ChangedEntry ==
    File(Tail(BaseFile) \o <<<<BaseLen + MaxEdits + 2>>>>, TRUE, "100644")

\* one commit holding "a" and "b", nothing staged, nothing edited
CleanRepo ==
    [head |-> [unborn |-> FALSE,
               tree |-> [p \in Paths |-> IF p = "a" THEN BaseEntry ELSE OtherEntry]],
     index |-> [p \in Paths |-> IF p = "a" THEN BaseEntry ELSE OtherEntry],
     workdir |-> [p \in Paths |-> IF p = "a" THEN BaseEntry ELSE OtherEntry]]

\* no commit yet, nothing staged, "a" in the working directory
UnbornRepo ==
    [head |-> [unborn |-> TRUE, tree |-> [p \in Paths |-> NoEntry]],
     index |-> [p \in Paths |-> NoEntry],
     workdir |-> [p \in Paths |-> IF p = "a" THEN BaseEntry ELSE NoEntry]]

\* one commit holding "a" and "b"; staged: a change of "a", the removal of "b"
StagedRepo ==
    [head |-> [unborn |-> FALSE,
               tree |-> [p \in Paths |-> IF p = "a" THEN BaseEntry ELSE OtherEntry]],
     index |-> [p \in Paths |-> IF p = "a" THEN ChangedEntry ELSE NoEntry],
     workdir |-> [p \in Paths |-> IF p = "a" THEN ChangedEntry ELSE NoEntry]]

\* one commit holding "a", whose last line no newline ends; staged: the new
\* file "b"
NoNewlineRepo ==
    [head |-> [unborn |-> FALSE,
               tree |-> [p \in Paths |-> IF p = "a" THEN File(BaseFile, FALSE, "100644")
                                         ELSE NoEntry]],
     index |-> [p \in Paths |-> IF p = "a" THEN File(BaseFile, FALSE, "100644")
                                ELSE OtherEntry],
     workdir |-> [p \in Paths |-> IF p = "a" THEN File(BaseFile, FALSE, "100644")
                                  ELSE OtherEntry]]

InitRepos == {CleanRepo, UnbornRepo, StagedRepo, NoNewlineRepo}

\* A branch entry, and HEAD, as the program reads it: the read fails ("err"),
\* or gives a reference with a direct target or without one (a symbolic
\* reference); HEAD is "unborn" before the first commit.
Target(oid) == [read |-> "ok", target |-> Some(oid)]
Symbolic == [read |-> "ok", target |-> None]
Unreadable == [read |-> "err", target |-> None]
Unborn == [read |-> "unborn", target |-> None]

Refs(locals, remotes, HEAD) ==
    [locals |-> locals, remotes |-> remotes,
     locals_ok |-> TRUE, remotes_ok |-> TRUE, HEAD |-> HEAD]

\* the commits and references that go with a last commit: none, or one commit
\* on the one branch
GraphOf(hd) ==
    IF hd.unborn THEN [commits |-> <<>>, refs |-> Refs(<<>>, <<>>, Unborn)]
    ELSE [commits |-> <<[parents |-> <<>>, time |-> 1]>>,
          refs |-> Refs(<<Target(1)>>, <<>>, Target(1))]

NoOut == <<>>

NoWatcher == [slot |-> None, live |-> {}, made |-> 0]

\* the callers that may run whole-file commands at the same time
Callers == {"first", "second"}
Idle == [pc |-> "idle", op |-> "none", paths |-> <<>>, index |-> <<>>, ret |-> "none"]
NoCalls == [c \in Callers |-> Idle]

Init ==
    /\ \E r \in InitRepos : head = r.head /\ index = r.index /\ workdir = r.workdir
    /\ view = NoView
    /\ last = Step("init", "a", <<>>, None, "ok")
    /\ repo_state = "Clean"
    /\ commits = GraphOf(head).commits
    /\ refs = GraphOf(head).refs
    /\ out = NoOut
    /\ watcher = NoWatcher
    /\ calls = NoCalls
    /\ pre = Snapshot
    /\ edits = 0
    /\ ops = 0

\* ------------------------------------------------ working-directory edits
\* The text edit number k inserts occurs nowhere else.
EditText == <<BaseLen + edits + 1>>

Edited(p, e) ==
    /\ edits < MaxEdits
    /\ workdir' = [workdir EXCEPT ![p] = e]
    /\ edits' = edits + 1
    /\ last' = Step("edit", p, <<>>, None, "ok")
    /\ pre' = Snapshot
    /\ UNCHANGED <<head, index, view, ops>>
    /\ UNCHANGED others

\* an edit touches the first or the last line of the file
EditPositions(n) == {1, n} \cap 1..n

DeleteLine(p) ==
    /\ Present(workdir[p])
    /\ \E i \in EditPositions(Len(workdir[p].lines)) :
          LET ls == RemoveAt(workdir[p].lines, i)
          IN Edited(p, File(ls, ls = <<>> \/ workdir[p].nl, workdir[p].mode))

InsertLine(p) ==
    /\ Present(workdir[p])
    /\ \E i \in EditPositions(Len(workdir[p].lines) + 1) :
          Edited(p, File(InsertAt(workdir[p].lines, i, EditText),
                         workdir[p].nl, workdir[p].mode))

ToggleNewline(p) ==
    /\ Present(workdir[p])
    /\ workdir[p].lines # <<>>
    /\ Edited(p, File(workdir[p].lines, ~workdir[p].nl, workdir[p].mode))

Chmod(p) ==
    /\ Present(workdir[p])
    /\ Edited(p, File(workdir[p].lines, workdir[p].nl,
                       IF workdir[p].mode = "100644" THEN "100755" ELSE "100644"))

CreateFile(p) ==
    /\ ~Present(workdir[p])
    /\ \E n \in 0..1 :
          Edited(p, File(IF n = 0 THEN <<>> ELSE <<EditText>>, TRUE, "100644"))

RemoveFile(p) ==
    /\ Present(workdir[p])
    /\ Edited(p, NoEntry)

\* ------------------------------------------------------------------ commands
Command == ops < MaxOps /\ ops' = ops + 1 /\ pre' = Snapshot

\* the diff model covers two images whose lines are distinct and whose
\* common lines are in the same order
Distinct(img) == Cardinality({img[i] : i \in 1..Len(img)}) = Len(img)
SameOrder(A, B) ==
    LET InA(x) == InSeq(x, A)
        InB(x) == InSeq(x, B)
    IN SelectSeq(A, InB) = SelectSeq(B, InA)
Diffable(old, new) ==
    /\ Distinct(ImageLines(old)) /\ Distinct(ImageLines(new))
    /\ SameOrder(ImageLines(old), ImageLines(new))

HeadEntry(p) == IF head.unborn THEN NoEntry ELSE head.tree[p]

GetDiff(p, staged) ==
    /\ Command
    /\ TRUE = IF staged THEN Diffable(HeadEntry(p), index[p])
              ELSE Diffable(index[p], workdir[p])
    /\ LET r == get_diff(HeadEntry(p), index[p], workdir[p], staged) IN
       /\ view' = [path |-> p, staged |-> staged, ok |-> r.ok, hunks |-> r.hunks,
                   untracked |-> r.untracked]
       /\ last' = Step("get_diff", p, <<>>, None, Ret(r.ok))
    /\ UNCHANGED <<head, index, workdir, edits>>
    /\ UNCHANGED others

\* the mode the apply primitive gives the entry it writes: the patch text
\* names no mode
ApplyModes(e) == {e.mode, "100644"}

\* the hunk is one of the client's view and has not gone stale
Fresh(p, hunk) ==
    /\ view.ok /\ view.path = p /\ InSeq(hunk, view.hunks)
    /\ last.op = "get_diff"

StageHunk(p, hunk) ==
    /\ Command
    /\ LET r == stage_hunk(index, workdir, p, hunk) IN
       /\ \E m \in (IF r.ok THEN ApplyModes(index[p]) ELSE {index[p].mode}) :
             index' = [r.index EXCEPT ![p].mode = m]
       /\ workdir' = r.workdir
       /\ last' = [Step("stage_hunk", p, <<>>, Some(hunk), Ret(r.ok))
                      EXCEPT !.fresh = Fresh(p, hunk) /\ ~view.staged]
    /\ UNCHANGED <<head, view, edits>>
    /\ UNCHANGED others

UnstageHunk(p, hunk) ==
    /\ Command
    /\ LET r == unstage_hunk(index, workdir, p, hunk) IN
       /\ \E m \in (IF r.ok THEN ApplyModes(index[p]) ELSE {index[p].mode}) :
             index' = [r.index EXCEPT ![p].mode = m]
       /\ workdir' = r.workdir
       /\ last' = [Step("unstage_hunk", p, <<>>, Some(hunk), Ret(r.ok))
                      EXCEPT !.fresh = Fresh(p, hunk) /\ view.staged,
                             !.roundtrip = /\ last.op = "stage_hunk" /\ last.ret = "ok"
                                           /\ last.path = p /\ last.hunk = Some(hunk),
                             !.origin = pre.index[p]]
    /\ UNCHANGED <<head, view, edits>>
    /\ UNCHANGED others

Stage(paths) ==
    /\ Command
    /\ LET r == stage(index, workdir, paths) IN
       /\ index' = r.index
       /\ last' = Step("stage", "a", paths, None, Ret(r.ok))
    /\ UNCHANGED <<head, workdir, view, edits>>
    /\ UNCHANGED others

Unstage(paths) ==
    /\ Command
    /\ LET r == unstage(head, index, paths) IN
       /\ index' = r.index
       /\ last' = Step("unstage", "a", paths, None, Ret(r.ok))
    /\ UNCHANGED <<head, workdir, view, edits>>
    /\ UNCHANGED others

\* What a client may send in place of a hunk of its view: the hunk with its
\* new_lines field raised, with one more context line, or without its last line.
TamperKinds == {"counts", "extra", "drop"}
TamperText == <<BaseLen + MaxEdits + 3>>

Tampered(hunk, kind) ==
    IF kind = "counts" THEN [hunk EXCEPT !.new_lines = @ + 1]
    ELSE IF kind = "header"
        THEN [hunk EXCEPT !.header = HeaderText(hunk.old_start + 1, hunk.old_lines,
                                                hunk.new_start + 1, hunk.new_lines)]
    ELSE IF kind = "extra"
        THEN [hunk EXCEPT !.lines =
                 Append(@, [content |-> TamperText, line_type |-> "Context",
                            old_lineno |-> None, new_lineno |-> None])]
    ELSE [hunk EXCEPT !.lines = SubSeq(@, 1, Len(@) - 1)]

Tamper(i, kind) ==
    /\ Command
    /\ last.op = "get_diff"
    /\ view.ok
    /\ i \in 1..Len(view.hunks)
    /\ kind = "drop" => view.hunks[i].lines # <<>>
    /\ view' = [view EXCEPT !.hunks[i] = Tampered(@, kind)]
    /\ last' = Step("tamper", view.path, <<>>, None, "ok")
    /\ UNCHANGED <<head, index, workdir, edits>>
    /\ UNCHANGED others

\* status with the entries repo.statuses answered
StatusWith(statuses) ==
    /\ Command
    /\ out' = [statuses |-> statuses, payload |-> status(statuses)]
    /\ last' = Step("status", "a", <<>>, None, "ok")
    /\ UNCHANGED <<head, index, workdir, view, edits, repo_state, commits, refs, watcher, calls>>

Status == StatusWith(Statuses(head, index, workdir))

\* What repo.statuses may answer: an entry for "a" with any flags, alone or
\* followed by an entry for "b".
SecondFlags == {{"WT_NEW"}, {"INDEX_MODIFIED", "WT_MODIFIED"}, {"CONFLICTED"}}

FlagEntries ==
    LET First == {[path |-> "a", flags |-> f] : f \in (SUBSET StatusFlags) \ {{}}}
        Second == {[path |-> "b", flags |-> g] : g \in SecondFlags}
    IN {<<e>> : e \in First} \cup {<<e, d>> : e \in First, d \in Second}

Log(limit) ==
    /\ Command
    /\ \E r \in log(commits, refs, limit) :
          /\ out' = [limit |-> limit, commits |-> r.commits]
          /\ last' = Step("log", "a", <<>>, None, Ret(r.ok))
    /\ UNCHANGED <<head, index, workdir, view, edits, repo_state, commits, refs, watcher, calls>>

\* The histories log is asked about: no commit, or MaxCommits commits of which
\* each has the one or the two before it as parents (the second may be a
\* root), with commit times that follow the order of the commits, that are
\* the same for two commits in a row, or that run backwards (skewed clocks).
ParentChoices(i) ==
    IF i = 1 THEN {<<>>}
    ELSE IF i = 2 THEN {<<>>, <<1>>}
    ELSE {<<i - 1>>, <<i - 2>>, <<i - 2, i - 1>>}

ParentLines ==
    {ps \in [1..MaxCommits -> UNION {ParentChoices(i) : i \in 1..MaxCommits}] :
        \A i \in 1..MaxCommits : ps[i] \in ParentChoices(i)}

TimeLines ==
    {[i \in 1..MaxCommits |-> i],
     [i \in 1..MaxCommits |-> (i + 1) \div 2],
     [i \in 1..MaxCommits |-> MaxCommits + 1 - i]}

Histories ==
    {<<>>} \cup
    {[i \in 1..MaxCommits |-> [parents |-> ps[i], time |-> tl[i]]] :
        ps \in ParentLines, tl \in TimeLines}

NoSuchOid == 0

LocalChoices(n) ==
    IF n = 0 THEN {<<>>, <<Unreadable>>}
    ELSE {<<>>, <<Target(n - 1)>>, <<Unreadable, Target(n)>>, <<Target(n), Target(n - 1)>>}

RemoteChoices(n) ==
    IF n = 0 THEN {<<>>}
    ELSE {<<>>, <<Symbolic, Target(n)>>, <<Target(NoSuchOid)>>}

HeadChoices(n) ==
    IF n = 0 THEN {Unborn, Unreadable} ELSE {Unreadable, Target(n), Target(1)}

RefChoices(n) ==
    {[locals |-> l, remotes |-> r, locals_ok |-> lo, remotes_ok |-> TRUE, HEAD |-> h] :
        l \in LocalChoices(n), r \in RemoteChoices(n), lo \in BOOLEAN, h \in HeadChoices(n)}

LimitChoices == {None, Some(0), Some(2), Some(MaxCommits)}

Commit(signature) ==
    /\ Command
    /\ LET r == commit(repo_state, signature, head, index, commits, refs) IN
       /\ head' = r.head
       /\ commits' = r.commits
       /\ refs' = r.refs
       /\ out' = [signature |-> signature, commits |-> r.commits]
       /\ last' = Step("commit", "a", <<>>, None, Ret(r.ok))
    /\ UNCHANGED <<index, workdir, view, edits, repo_state, watcher, calls>>

\* Outside the program: an operation such as a merge starts or ends, and the
\* user moves to a branch that has no commit yet (git checkout --orphan).
SetState(st) ==
    /\ edits < MaxEdits
    /\ st # repo_state
    /\ repo_state' = st
    /\ edits' = edits + 1
    /\ last' = Step("state", "a", <<>>, None, "ok")
    /\ pre' = Snapshot
    /\ UNCHANGED <<head, index, workdir, view, ops, commits, refs, out, watcher, calls>>

Orphan ==
    /\ edits < MaxEdits
    /\ ~head.unborn
    /\ head' = [unborn |-> TRUE, tree |-> EmptyTree]
    /\ refs' = [refs EXCEPT !.HEAD = Unborn]
    /\ edits' = edits + 1
    /\ last' = Step("orphan", "a", <<>>, None, "ok")
    /\ pre' = Snapshot
    /\ UNCHANGED <<index, workdir, view, ops, repo_state, commits, out, watcher, calls>>

StartWatch(path, created, watched) ==
    /\ Command
    /\ LET r == start_watch(watcher, path, created, watched) IN
       /\ watcher' = r.watcher
       /\ last' = Step("start_watch", path, <<>>, None, Ret(r.ok))
    /\ UNCHANGED <<head, index, workdir, view, edits, repo_state, commits, refs, out, calls>>

StopWatch ==
    /\ Command
    /\ LET r == stop_watch(watcher) IN
       /\ watcher' = r.watcher
       /\ last' = Step("stop_watch", "a", <<>>, None, Ret(r.ok))
    /\ UNCHANGED <<head, index, workdir, view, edits, repo_state, commits, refs, out, calls>>

\* The callback sequences the hunk extraction is given: up to MaxEvents
\* events, each a hunk start (its header text need not say what its four
\* integers say) or a line of any origin.
HunkStartChoices ==
    {[HunkEvent(1, 2, 1, 3) EXCEPT !.header = RawHeader(<<>>, HeaderText(1, 2, 1, 3), <<NL>>)],
     [HunkEvent(5, 0, 7, 1) EXCEPT !.header = RawHeader(<<Space>>, HeaderText(4, 1, 4, 1), <<Space, NL>>)]}

LineChoices ==
    {LineEvent(origin, <<1, NL>>) :
        origin \in {Plus, Minus, Space, OriginAddEofnl, OriginDelEofnl, OriginCtxEofnl, OriginOther}}
    \cup {LineEvent(Plus, <<2>>)}

EventChoices == HunkStartChoices \cup LineChoices

Extract(ev) ==
    /\ ops = 0
    /\ Len(out.events) < MaxEvents
    /\ out' = [events |-> Append(out.events, ev),
               hunks |-> ExtractHunks(Append(out.events, ev))]
    /\ last' = Step("foreach", "a", <<>>, None, "ok")
    /\ pre' = Snapshot
    /\ UNCHANGED <<head, index, workdir, view, edits, ops,
                   repo_state, commits, refs, watcher, calls>>

\* Outside the program: a merge leaves the path in conflict in the index.
Conflict(p) ==
    /\ edits < MaxEdits
    /\ Present(index[p]) /\ StageOf(index[p]) = 0
    /\ index' = [index EXCEPT ![p] = ConflictEntry(index[p])]
    /\ edits' = edits + 1
    /\ last' = Step("conflict", p, <<>>, None, "ok")
    /\ pre' = Snapshot
    /\ UNCHANGED <<head, workdir, view, ops>>
    /\ UNCHANGED others

\* unstage where the blobs of some paths cannot be found
UnstageFound(paths, missing) ==
    /\ Command
    /\ LET r == unstage_found(head, index, paths, missing) IN
       /\ index' = r.index
       /\ last' = Step("unstage", "a", paths, None, Ret(r.ok))
    /\ UNCHANGED <<head, workdir, view, edits>>
    /\ UNCHANGED others

\* Two whole-file calls at the same time.  A call opens the repository and
\* reads the index file into its own copy (repo.index()); later it runs its
\* loop on the copy and writes the copy over the index file (index.write()).
\* The path lists of calls that run together are disjoint.
Load(c, op, paths) ==
    /\ calls[c].pc = "idle"
    /\ \A d \in Callers \ {c} : ToSet(calls[d].paths) \cap ToSet(paths) = {}
    /\ calls' = [calls EXCEPT ![c] = [pc |-> "loaded", op |-> op, paths |-> paths,
                                      index |-> index, ret |-> "none"]]
    /\ last' = Step("load", "a", paths, None, "ok")
    /\ pre' = Snapshot
    /\ UNCHANGED <<head, index, workdir, view, edits, ops,
                   repo_state, commits, refs, out, watcher>>

Write(c) ==
    /\ calls[c].pc = "loaded"
    /\ LET r == IF calls[c].op = "stage" THEN stage(calls[c].index, workdir, calls[c].paths)
                ELSE unstage(head, calls[c].index, calls[c].paths)
       IN /\ index' = IF r.ok THEN r.index ELSE index
          /\ calls' = [calls EXCEPT ![c].pc = "done", ![c].ret = Ret(r.ok)]
          /\ last' = Step("write", "a", calls[c].paths, None, Ret(r.ok))
    /\ pre' = Snapshot
    /\ UNCHANGED <<head, workdir, view, edits, ops,
                   repo_state, commits, refs, out, watcher>>

PathLists == {<<p>> : p \in Paths} \cup {<<p, q>> : p \in Paths, q \in Paths}

ViewHunks == {view.hunks[i] : i \in 1..Len(view.hunks)}

\* Hunk staging: "a" is edited in the working directory, then the client asks
\* for diffs and stages or unstages hunks of its view.
Next ==
    \/ ops = 0 /\ DeleteLine("a")
    \/ ops = 0 /\ InsertLine("a")
    \/ ops = 0 /\ ToggleNewline("a")
    \/ ops = 0 /\ CreateFile("a")
    \/ ops = 0 /\ RemoveFile("a")
    \/ \E p \in Paths, staged \in BOOLEAN : GetDiff(p, staged)
    \/ \E hunk \in ViewHunks : StageHunk(view.path, hunk)
    \/ \E hunk \in ViewHunks : UnstageHunk(view.path, hunk)

Spec == Init /\ [][Next]_vars

\* Hunk staging by a client that may alter a hunk before it sends it.
NextClient ==
    \/ ops = 0 /\ InsertLine("a")
    \/ \E p \in Paths, staged \in BOOLEAN : GetDiff(p, staged)
    \/ \E i \in 1..Len(view.hunks), kind \in TamperKinds : Tamper(i, kind)
    \/ \E hunk \in ViewHunks : StageHunk(view.path, hunk)
    \/ \E hunk \in ViewHunks : UnstageHunk(view.path, hunk)

SpecClient == Init /\ [][NextClient]_vars

\* Whole-file staging: edits and whole-file commands in any order.
NextFile ==
    \/ DeleteLine("a")
    \/ InsertLine("a")
    \/ ToggleNewline("a")
    \/ \E p \in Paths : Chmod(p)
    \/ \E p \in Paths : CreateFile(p)
    \/ \E p \in Paths : RemoveFile(p)
    \/ \E paths \in PathLists : Stage(paths)
    \/ \E paths \in PathLists : Unstage(paths)

SpecFile == Init /\ [][NextFile]_vars

\* Status and whole-file staging: files are edited, single paths are staged,
\* the client asks for the status.
NextStatus ==
    \/ DeleteLine("a")
    \/ InsertLine("a")
    \/ Chmod("a")
    \/ \E p \in Paths : CreateFile(p)
    \/ \E p \in Paths : RemoveFile(p)
    \/ \E p \in Paths : Stage(<<p>>)
    \/ Status

SpecStatus == Init /\ [][NextStatus]_vars

\* Status as a function of the flags: one call, whatever repo.statuses answers.
InitFlags ==
    /\ Init
    /\ head = CleanRepo.head /\ index = CleanRepo.index /\ workdir = CleanRepo.workdir

NextFlags == ops = 0 /\ \E statuses \in FlagEntries : StatusWith(statuses)

SpecFlags == InitFlags /\ [][NextFlags]_vars

\* log as a function of the history and the references: one call.
InitLog ==
    /\ head = CleanRepo.head /\ index = CleanRepo.index /\ workdir = CleanRepo.workdir
    /\ view = NoView
    /\ last = Step("init", "a", <<>>, None, "ok")
    /\ repo_state = "Clean"
    /\ commits \in Histories
    /\ refs \in RefChoices(Len(commits))
    /\ out = NoOut
    /\ watcher = NoWatcher
    /\ calls = NoCalls
    /\ pre = Snapshot
    /\ edits = 0
    /\ ops = 0

NextLog == ops = 0 /\ \E limit \in LimitChoices : Log(limit)

SpecLog == InitLog /\ [][NextLog]_vars

\* Committing: files are edited and staged, operations start and end, the
\* user commits.
NextCommit ==
    \/ InsertLine("a")
    \/ \E p \in Paths : CreateFile(p)
    \/ \E p \in Paths : Stage(<<p>>)
    \/ \E st \in RepositoryStates : SetState(st)
    \/ Orphan
    \/ \E signature \in BOOLEAN : Commit(signature)

SpecCommit == Init /\ [][NextCommit]_vars

\* The watcher: the client starts and stops watching; the commands run one
\* at a time, on the main thread.
NextWatch ==
    \/ \E path \in WatchPaths : \E created \in BOOLEAN : \E watched \in BOOLEAN :
          StartWatch(path, created, watched)
    \/ StopWatch

SpecWatch == InitFlags /\ [][NextWatch]_vars

\* The hunk extraction of get_diff as a function of the callback sequence:
\* the sequence grows by one event at a time.
InitEvents ==
    /\ head = CleanRepo.head /\ index = CleanRepo.index /\ workdir = CleanRepo.workdir
    /\ view = NoView
    /\ last = Step("init", "a", <<>>, None, "ok")
    /\ repo_state = "Clean"
    /\ commits = GraphOf(head).commits
    /\ refs = GraphOf(head).refs
    /\ out = [events |-> <<>>, hunks |-> ExtractHunks(<<>>)]
    /\ watcher = NoWatcher
    /\ calls = NoCalls
    /\ pre = Snapshot
    /\ edits = 0
    /\ ops = 0

NextEvents == \E ev \in EventChoices : Extract(ev)

SpecEvents == InitEvents /\ [][NextEvents]_vars

\* Which diff get_diff gives: files are created, removed and staged,
\* a merge leaves conflicts, the client asks for the diff of either view (the
\* staged view of paths that are not in conflict).
NextGating ==
    \/ \E p \in Paths : CreateFile(p)
    \/ \E p \in Paths : RemoveFile(p)
    \/ \E p \in Paths : Stage(<<p>>)
    \/ \E p \in Paths : Conflict(p)
    \/ \E p \in Paths : \E staged \in BOOLEAN :
          (staged => StageOf(index[p]) = 0) /\ GetDiff(p, staged)

SpecGating == Init /\ [][NextGating]_vars

\* A client whose hunk has a header text that is one line off its integers.
NextHeader ==
    \/ ops = 0 /\ InsertLine("a")
    \/ \E p \in Paths, staged \in BOOLEAN : GetDiff(p, staged)
    \/ \E i \in 1..Len(view.hunks) : Tamper(i, "header")
    \/ \E hunk \in ViewHunks : StageHunk(view.path, hunk)
    \/ \E hunk \in ViewHunks : UnstageHunk(view.path, hunk)

SpecHeader == Init /\ [][NextHeader]_vars

\* Whole-file commands that may fail at a path: files are created, removed
\* and given another mode; lists of paths are staged and unstaged.
NextAtomic ==
    \/ \E p \in Paths : Chmod(p)
    \/ \E p \in Paths : CreateFile(p)
    \/ \E p \in Paths : RemoveFile(p)
    \/ \E paths \in PathLists : Stage(paths)
    \/ \E paths \in PathLists : \E missing \in SUBSET Paths : UnstageFound(paths, missing)

SpecAtomic == Init /\ [][NextAtomic]_vars

\* Whole-file calls that overlap: files change before the first call starts;
\* then each caller makes one call, and the calls take their steps in any
\* order.
NextRace ==
    \/ (\A c \in Callers : calls[c].pc = "idle") /\ \E p \in Paths : Chmod(p)
    \/ (\A c \in Callers : calls[c].pc = "idle") /\ \E p \in Paths : CreateFile(p)
    \/ \E c \in Callers : \E op \in {"stage", "unstage"} : \E paths \in PathLists :
          Load(c, op, paths)
    \/ \E c \in Callers : Write(c)

SpecRace == Init /\ [][NextRace]_vars

\* =================================================================== properties
\* the texts of the lines of a hunk that have one of the given types, in order
SideText(hunk, types) ==
    LET OfType(l) == l.line_type \in types
        sel == SelectSeq(hunk.lines, OfType)
    IN [i \in 1..Len(sel) |-> sel[i].content]

OldSideText(hunk) == SideText(hunk, {"Context", "Deletion"})
NewSideText(hunk) == SideText(hunk, {"Context", "Addition"})

\* the texts occur in the file as one run of consecutive lines
OccursIn(texts, lines) ==
    \E pos \in 0..Len(lines) :
        /\ pos + Len(texts) <= Len(lines)
        /\ SubSeq(lines, pos + 1, pos + Len(texts)) = texts

\* the lines of the hunk add up to the counts of its header
Consistent(hunk) ==
    /\ NewSideCount(hunk.lines) = hunk.new_lines
    /\ OldSideCount(hunk.lines) = hunk.old_lines

LastHunk == last.hunk[1]

\* C1: when stage_hunk of a hunk with consistent counts returned Ok and
\* unstage_hunk of the same hunk follows at once, unstage_hunk returns Ok and the
\* index content of the file is what it was before stage_hunk.
C1_RoundTrip ==
    (last.op = "unstage_hunk" /\ last.roundtrip /\ Consistent(LastHunk))
        => /\ last.ret = "ok"
           /\ index[last.path].lines = last.origin.lines
           /\ index[last.path].nl = last.origin.nl

\* C2: stage_hunk (unstage_hunk) of a hunk whose context and deletion (addition)
\* lines are not lines of the file in the index returns an error and leaves the
\* index as it was.
C2_DriftRejected ==
    /\ (last.op = "stage_hunk"
            /\ ~OccursIn(OldSideText(LastHunk), pre.index[last.path].lines))
          => (last.ret = "err" /\ index = pre.index)
    /\ (last.op = "unstage_hunk"
            /\ ~OccursIn(NewSideText(LastHunk), pre.index[last.path].lines))
          => (last.ret = "err" /\ index = pre.index)

\* C3: whatever stage_hunk and unstage_hunk return, the working directory and
\* the last commit are as before, and so is the index entry of every other file.
C3_OnlyIndexOfFile ==
    last.op \in {"stage_hunk", "unstage_hunk"}
        => /\ workdir = pre.workdir
           /\ head = pre.head
           /\ \A q \in Paths \ {last.path} : index[q] = pre.index[q]

\* a hunk was staged, the index entry of the file changed and differs from the
\* working-directory file
C3_witness ==
    /\ last.op = "stage_hunk" /\ last.ret = "ok"
    /\ index[last.path] # pre.index[last.path]
    /\ index[last.path].lines # workdir[last.path].lines

\* C4: stage_hunk of a hunk that get_diff(staged = false) has just returned
\* returns Ok.
C4_ForwardApply ==
    (last.op = "stage_hunk" /\ last.fresh) => last.ret = "ok"

\* C5: unstage_hunk of a hunk that get_diff(staged = true) has just returned
\* returns Ok, and the index then holds the hunk's deletion and context lines at
\* the hunk's old range.
C5_UnstageUndoes ==
    (last.op = "unstage_hunk" /\ last.fresh)
        => /\ last.ret = "ok"
           /\ LastHunk.old_lines > 0 =>
                 /\ LastHunk.old_start + LastHunk.old_lines - 1
                        <= Len(index[last.path].lines)
                 /\ SubSeq(index[last.path].lines, LastHunk.old_start,
                           LastHunk.old_start + LastHunk.old_lines - 1)
                        = OldSideText(LastHunk)

\* C6: stage_hunk and unstage_hunk of a hunk whose lines do not add up to the
\* counts of its header return an error and leave the index as it was.
C6_InconsistentRejected ==
    (last.op \in {"stage_hunk", "unstage_hunk"} /\ ~Consistent(LastHunk))
        => (last.ret = "err" /\ index = pre.index)

\* C7: in every hunk get_diff returns, the addition and context lines number
\* new_lines and the deletion and context lines number old_lines.
C7_CountsMatchHeader ==
    (last.op = "get_diff" /\ view.ok)
        => \A i \in 1..Len(view.hunks) : Consistent(view.hunks[i])

\* C8: get_diff(staged = false) of a file that is in the working directory and
\* not in the index returns one hunk, -0,0 +1,N for a file of N lines, whose
\* lines are the file's lines in order, each an addition numbered by its
\* position on the new side and not numbered on the old side.
C8_UntrackedDiff ==
    (last.op = "get_diff" /\ ~view.staged
        /\ ~Present(index[view.path]) /\ Present(workdir[view.path]))
        => /\ view.ok
           /\ Len(view.hunks) = 1
           /\ LET h == view.hunks[1]
                  f == workdir[view.path].lines
              IN /\ h.old_start = 0 /\ h.old_lines = 0
                 /\ h.new_start = 1 /\ h.new_lines = Len(f)
                 /\ Len(h.lines) = Len(f)
                 /\ \A i \in 1..Len(f) :
                       h.lines[i] = [content |-> f[i], line_type |-> "Addition",
                                     old_lineno |-> None, new_lineno |-> Some(i)]

\* the diff of an untracked file of several lines has been returned
C8_witness ==
    /\ last.op = "get_diff" /\ ~view.staged
    /\ ~Present(index[view.path]) /\ Present(workdir[view.path])
    /\ Len(workdir[view.path].lines) >= 2
    /\ view.ok

\* the numbers of the lines of a hunk on one side: those of the lines that
\* carry one, in order
LineNumbers(hunk, side) ==
    LET Has(l) == (IF side = "old" THEN l.old_lineno ELSE l.new_lineno) # None
        sel == SelectSeq(hunk.lines, Has)
    IN [k \in 1..Len(sel) |->
           IF side = "old" THEN sel[k].old_lineno[1] ELSE sel[k].new_lineno[1]]

\* C9: in every hunk get_diff returns, a line has an old number iff it is a
\* context or deletion line and a new number iff it is a context or addition
\* line; the k-th old number is old_start + k - 1, the k-th new number is
\* new_start + k - 1, and every number is at least 1.
C9_LineNumbering ==
    (last.op = "get_diff" /\ view.ok)
        => \A i \in 1..Len(view.hunks) :
              LET h == view.hunks[i]
                  olds == LineNumbers(h, "old")
                  news == LineNumbers(h, "new")
              IN /\ \A j \in 1..Len(h.lines) :
                        /\ (h.lines[j].old_lineno # None) <=> IsDelOrCtx(h.lines[j])
                        /\ (h.lines[j].new_lineno # None) <=> IsAddOrCtx(h.lines[j])
                 /\ \A k \in 1..Len(olds) : olds[k] = h.old_start + k - 1 /\ olds[k] >= 1
                 /\ \A k \in 1..Len(news) : news[k] = h.new_start + k - 1 /\ news[k] >= 1

EntriesOf(bucket, p) == {k \in 1..Len(bucket) : bucket[k].path = p}
EntriesAs(bucket, p, st) == {k \in EntriesOf(bucket, p) : bucket[k].status = st}

\* C11: when status lists p in unstaged as Untracked, Modified or Deleted,
\* stage([p]) returns Ok, the index entry of p is then its working-directory
\* file, status no longer lists p in unstaged and get_diff(p, staged = false)
\* returns no hunk.
C11_StageFile ==
    (last.op = "stage" /\ Len(last.paths) = 1)
        => LET p == last.paths[1]
               before == status(Statuses(pre.head, pre.index, pre.workdir)).unstaged
               after == status(Statuses(head, index, workdir)).unstaged
           IN (\E st \in {"U", "M", "D"} : EntriesAs(before, p, st) # {})
                 => /\ last.ret = "ok"
                    /\ index[p] = workdir[p]
                    /\ EntriesOf(after, p) = {}
                    /\ get_diff(HeadEntry(p), index[p], workdir[p], FALSE).hunks = <<>>

\* C12: status of a path that the last commit and the index hold with
\* different content, taken when the working-directory file is the index
\* entry, lists it once in staged as Modified and not in unstaged; taken when
\* the working-directory file differs again, it lists the path once in staged
\* and once in unstaged, both times as Modified.
C12_StagedThenEdited ==
    last.op = "status"
        => \A p \in Paths :
              LET h == TreeEntry(head, p)
                  staged == out.payload.staged
                  unstaged == out.payload.unstaged
              IN (Present(h) /\ Present(index[p]) /\ index[p] # h)
                    => /\ Cardinality(EntriesOf(staged, p)) = 1
                       /\ Cardinality(EntriesAs(staged, p, "M")) = 1
                       /\ workdir[p] = index[p] => EntriesOf(unstaged, p) = {}
                       /\ (Present(workdir[p]) /\ workdir[p] # index[p])
                             => /\ Cardinality(EntriesOf(unstaged, p)) = 1
                                /\ Cardinality(EntriesAs(unstaged, p, "M")) = 1

\* the repository started clean, "a" was edited, staged and edited again, and
\* status was asked
C12_witness ==
    /\ last.op = "status"
    /\ head = CleanRepo.head
    /\ index["b"] = OtherEntry /\ workdir["b"] = OtherEntry
    /\ Present(index["a"]) /\ index["a"] # head.tree["a"]
    /\ Present(workdir["a"]) /\ workdir["a"] # index["a"]
    /\ workdir["a"] # head.tree["a"]

\* the status the first flag of the order that is set stands for, if any
FirstSet(order, names, flags) ==
    LET IsSet(f) == f \in flags
        hit == SelectSeq(order, IsSet)
    IN IF hit = <<>> THEN {} ELSE {names[Head(hit)]}

IndexOrder == <<"INDEX_NEW", "INDEX_MODIFIED", "INDEX_DELETED", "INDEX_RENAMED">>
IndexNames ==
    [f \in IndexFlags |-> CASE f = "INDEX_NEW" -> "A" [] f = "INDEX_MODIFIED" -> "M"
                            [] f = "INDEX_DELETED" -> "D" [] OTHER -> "R"]
WtOrder == <<"WT_NEW", "WT_MODIFIED", "WT_DELETED", "WT_RENAMED">>
WtNames ==
    [f \in WtFlags |-> CASE f = "WT_NEW" -> "U" [] f = "WT_MODIFIED" -> "M"
                         [] f = "WT_DELETED" -> "D" [] OTHER -> "R"]

StatusesOf(bucket, ks) == {bucket[k].status : k \in ks}

\* C13: for every entry, the staged bucket holds at most one entry of its path,
\* for the first set flag among index-new, index-modified, index-deleted,
\* index-renamed; the unstaged bucket holds at most one entry of its path that
\* is not Conflicted, for the first set flag among wt-new, wt-modified,
\* wt-deleted, wt-renamed.
C13_StatusPriority ==
    last.op = "status"
        => \A i \in 1..Len(out.statuses) :
              LET e == out.statuses[i]
                  staged == EntriesOf(out.payload.staged, e.path)
                  unstaged == EntriesOf(out.payload.unstaged, e.path)
                                \ EntriesAs(out.payload.unstaged, e.path, "C")
              IN /\ Cardinality(staged) <= 1
                 /\ StatusesOf(out.payload.staged, staged)
                        = FirstSet(IndexOrder, IndexNames, e.flags)
                 /\ Cardinality(unstaged) <= 1
                 /\ StatusesOf(out.payload.unstaged, unstaged)
                        = FirstSet(WtOrder, WtNames, e.flags)

\* status was given an entry with several index flags and several
\* working-tree flags
C13_witness ==
    /\ last.op = "status"
    /\ {"INDEX_NEW", "INDEX_MODIFIED", "WT_MODIFIED", "WT_DELETED"}
           \subseteq out.statuses[1].flags
    /\ out.payload.staged # <<>> /\ out.payload.unstaged # <<>>

\* C14: every entry with an index flag, a working-tree flag or the conflict
\* flag has its path in the staged or in the unstaged bucket.
C14_StatusComplete ==
    last.op = "status"
        => \A i \in 1..Len(out.statuses) :
              LET e == out.statuses[i] IN
              e.flags \cap (IndexFlags \cup WtFlags \cup {"CONFLICTED"}) # {}
                 => EntriesOf(out.payload.staged, e.path)
                       \cup EntriesOf(out.payload.unstaged, e.path) # {}

\* C15: a path with the conflict flag has one Conflicted entry in unstaged
\* besides the entry of its working-tree flags, a path without it has none,
\* and staged holds no Conflicted entry.
C15_Conflicts ==
    last.op = "status"
        => \A i \in 1..Len(out.statuses) :
              LET e == out.statuses[i]
                  unstaged == out.payload.unstaged
                  conflicts == EntriesAs(unstaged, e.path, "C")
              IN /\ Cardinality(conflicts)
                       = (IF "CONFLICTED" \in e.flags THEN 1 ELSE 0)
                 /\ Cardinality(EntriesOf(unstaged, e.path))
                       = Cardinality(FirstSet(WtOrder, WtNames, e.flags))
                            + Cardinality(conflicts)
                 /\ EntriesAs(out.payload.staged, e.path, "C") = {}

\* status was given a conflicted path that has a working-tree flag too and
\* listed it twice in unstaged
C15_witness ==
    /\ last.op = "status"
    /\ {"CONFLICTED", "WT_MODIFIED"} \subseteq out.statuses[1].flags
    /\ Cardinality(EntriesOf(out.payload.unstaged, out.statuses[1].path)) = 2

\* ------------------------------------------------------------------------ log
LogLimit == IF out.limit = None THEN DefaultLimit ELSE out.limit[1]

ReturnedOids == {out.commits[k].oid : k \in 1..Len(out.commits)}

\* the commits reachable from the tips of the local and remote branches
FromBranchTips == Closure(commits, ToSet(BranchTips(refs)))

HeadResolves == refs.HEAD.read = "ok" /\ refs.HEAD.target # None

FromHead == Closure(commits, {refs.HEAD.target[1]})

\* what a successful log returned is what a walk from `reach` returns
WalkedFrom(reach) ==
    /\ ReturnedOids \subseteq reach
    /\ Len(out.commits) = Min(LogLimit, Cardinality(reach))

\* C17: the roots of log's walk are the tips of all branches that have a
\* target, if there is one; otherwise HEAD's target alone; and with neither a
\* branch tip nor a HEAD target log returns Ok and the empty sequence.
C17_LogRoots ==
    last.op = "log" =>
        /\ (BranchTips(refs) # <<>> /\ last.ret = "ok") => WalkedFrom(FromBranchTips)
        /\ (BranchTips(refs) = <<>> /\ HeadResolves /\ last.ret = "ok") => WalkedFrom(FromHead)
        /\ (BranchTips(refs) = <<>> /\ ~HeadResolves) =>
              (last.ret = "ok" /\ out.commits = <<>>)

\* log of a repository without branches whose HEAD is detached returned all
\* of its history, more than one commit
C17_witness ==
    /\ last.op = "log" /\ last.ret = "ok" /\ out.limit = None
    /\ refs.locals_ok /\ refs.locals = <<>> /\ refs.remotes = <<>>
    /\ HeadResolves
    /\ ReturnedOids = FromHead
    /\ Len(out.commits) > 1

\* a sub-step of the last log failed: the enumeration of the local or of the
\* remote branches, the read of a branch entry, or the read of HEAD for
\* another reason than an unborn branch when log turned to it
LogSubStepFailed ==
    \/ ~refs.locals_ok
    \/ ~refs.remotes_ok
    \/ \E k \in 1..Len(refs.locals) : refs.locals[k].read = "err"
    \/ \E k \in 1..Len(refs.remotes) : refs.remotes[k].read = "err"
    \/ (BranchTips(refs) = <<>> /\ refs.HEAD.read = "err")

\* C19: an operation of which a sub-step failed returns an error and does not
\* go on with a substitute for the sub-step's result; here for log, whose
\* sub-steps are enumerating the branches, reading each branch entry and
\* resolving HEAD.
C19_NoFallback ==
    (last.op = "log" /\ LogSubStepFailed) => last.ret = "err"

\* --------------------------------------------------------------------- commit
\* what the last command left as it was
NothingMoved ==
    /\ head = pre.head /\ index = pre.index
    /\ commits = pre.commits /\ refs = pre.refs

\* nothing was staged before the last command: the index was the tree of the
\* last commit, the empty tree if there was none
NothingWasStaged == pre.index = pre.head.tree

\* C18: commit returns an error and leaves HEAD, the index and the commits as
\* they were whenever the repository state is not Clean or nothing is staged;
\* it creates a commit only in the Clean state with a change staged.
C18_CommitGating ==
    last.op = "commit" =>
        /\ (repo_state # "Clean" \/ NothingWasStaged) => (last.ret = "err" /\ NothingMoved)
        /\ (last.ret = "ok" \/ ~NothingMoved) =>
              /\ repo_state = "Clean" /\ ~NothingWasStaged
              /\ last.ret = "ok"
              /\ Len(commits) = Len(pre.commits) + 1
              /\ head.tree = pre.index /\ index = pre.index

\* a commit was refused during an operation although a change was staged and
\* a signature was at hand
C18_witness ==
    /\ last.op = "commit" /\ last.ret = "err"
    /\ repo_state # "Clean"
    /\ out.signature
    /\ ~pre.head.unborn
    /\ ~NothingWasStaged

\* ---------------------------------------------------------------------- watch
InSlot(w) == {w.slot[k] : k \in 1..Len(w.slot)}

\* C20: at most one watcher is live, the one in the slot; a successful
\* start_watch(p) leaves one new watcher, on p, in place of any earlier one;
\* stop_watch returns Ok and leaves no watcher live, and changes nothing when
\* no watcher was running.
C20_WatcherLifecycle ==
    /\ Cardinality(watcher.live) <= 1
    /\ watcher.live = InSlot(watcher)
    /\ (last.op = "start_watch" /\ last.ret = "ok") =>
          \E d \in watcher.live :
             /\ watcher.live = {d}
             /\ d.path = last.path
             /\ d \notin pre.watcher.live
    /\ last.op = "stop_watch" =>
          /\ last.ret = "ok"
          /\ watcher.live = {}
          /\ pre.watcher.slot = None => watcher = pre.watcher

\* start_watch on one repository succeeded while a watcher on another one was
\* running
C20_witness ==
    /\ last.op = "start_watch" /\ last.ret = "ok"
    /\ \E d \in pre.watcher.live : d.path # last.path
    /\ \E d \in watcher.live : d.path = last.path /\ d.git_dir

\* ------------------------------------------------------------ callback protocol
\* the positions of the hunk-start events, and of the k-th one
HunkStartsAt == {i \in 1..Len(out.events) : out.events[i].kind = "hunk"}

KthStart(k) ==
    CHOOSE i \in HunkStartsAt : Cardinality({j \in HunkStartsAt : j <= i}) = k

\* the positions of the line events that belong to the hunk started at i: those
\* after i and before the next hunk start whose origin is one of the six
LinesOfStart(i) ==
    {j \in (i + 1)..Len(out.events) :
        /\ out.events[j].kind = "line"
        /\ \A h \in HunkStartsAt : ~(i < h /\ h < j)
        /\ out.events[j].origin \in
              {Plus, OriginAddEofnl, Minus, OriginDelEofnl, Space, OriginCtxEofnl}}

\* the position of the n-th smallest element of a set of positions
NthOf(set, n) == CHOOSE j \in set : Cardinality({x \in set : x <= j}) = n

TypeOfOrigin(origin) ==
    IF origin \in {Plus, OriginAddEofnl} THEN "Addition"
    ELSE IF origin \in {Minus, OriginDelEofnl} THEN "Deletion"
    ELSE "Context"

\* C21: for every sequence of hunk-start and line events the output has one
\* hunk for each hunk-start event, in the order of the events, with the header
\* text trimmed and the four integers of the event; the lines of a hunk are
\* the line events of origin + > - < space = between its start and the next
\* one, in the order they came; the last hunk is there after the sequence
\* ends and lines before the first hunk start are dropped.
C21_CallbackProtocol ==
    last.op = "foreach" =>
        /\ Len(out.hunks) = Cardinality(HunkStartsAt)
        /\ \A k \in 1..Len(out.hunks) :
              LET ev == out.events[KthStart(k)]
                  mine == LinesOfStart(KthStart(k))
                  hunk == out.hunks[k]
              IN /\ hunk.header = ev.header.text
                 /\ hunk.old_start = ev.old_start /\ hunk.old_lines = ev.old_lines
                 /\ hunk.new_start = ev.new_start /\ hunk.new_lines = ev.new_lines
                 /\ Len(hunk.lines) = Cardinality(mine)
                 /\ \A n \in 1..Len(hunk.lines) :
                       LET le == out.events[NthOf(mine, n)] IN
                       /\ hunk.lines[n].content = TrimEndNL(le.content)
                       /\ hunk.lines[n].line_type = TypeOfOrigin(le.origin)

\* a sequence that begins with a line, has two hunk starts, the second with
\* whitespace around its header text, a line of another origin, and ends with
\* a line of the last hunk
C21_witness ==
    /\ last.op = "foreach"
    /\ Len(out.events) = MaxEvents
    /\ out.events[1].kind = "line"
    /\ Cardinality(HunkStartsAt) = 2
    /\ \E i \in HunkStartsAt : out.events[i].header.lead # <<>>
    /\ out.events[Len(out.events)].kind = "line"
    /\ Len(out.hunks) = 2
    /\ out.hunks[2].lines # <<>>

\* ------------------------------------------------------------ untracked gating
\* C22: get_diff gives the synthesized all-additions hunk exactly when the
\* unstaged view is asked for and the path is not in the index (a path that
\* is in the index only as conflict entries is in the index); in that case a
\* file missing from the working directory gives an error.
C22_UntrackedGating ==
    last.op = "get_diff" =>
        /\ view.untracked <=> (~view.staged /\ ~Present(index[view.path]))
        /\ (view.untracked /\ ~Present(workdir[view.path])) => last.ret = "err"

\* ------------------------------------------------------- integers and header
\* the header of a patch says what the four integers of the hunk say, the
\* sides swapped or not
HeaderSays(header, old_start, old_lines, new_start, new_lines) ==
    LET h == ParseHunkHeader(header)
    IN /\ h.ok
       /\ h.old_start = old_start /\ h.old_lines = old_lines
       /\ h.new_start = new_start /\ h.new_lines = new_lines

\* C23: whatever the header text of the hunk the client passes, the hunk
\* header of the patch stage_hunk builds has the hunk's four integers, and
\* that of unstage_hunk has them with old and new swapped, so that both
\* address the same line ranges.
C23_IntegersAreTruth ==
    (last.op \in {"stage_hunk", "unstage_hunk"}) =>
        /\ HeaderSays(StagePatchText(LastHunk).header,
                      LastHunk.old_start, LastHunk.old_lines,
                      LastHunk.new_start, LastHunk.new_lines)
        /\ HeaderSays(UnstagePatchText(LastHunk).header,
                      LastHunk.new_start, LastHunk.new_lines,
                      LastHunk.old_start, LastHunk.old_lines)

\* ---------------------------------------------------------------- commit effect
NewCommit == commits[Len(commits)]

\* C24: after a commit that returned Ok, HEAD points to a new commit whose
\* tree is the index and whose only parent is the commit HEAD pointed to
\* before (none if there was no commit); the index and the working directory
\* are as before; status lists nothing as staged; and a commit right after it
\* fails, with or without a signature, as nothing is staged.
C24_CommitEffect ==
    (last.op = "commit" /\ last.ret = "ok") =>
        /\ Len(commits) = Len(pre.commits) + 1
        /\ SubSeq(commits, 1, Len(pre.commits)) = pre.commits
        /\ refs.HEAD = Target(Len(commits))
        /\ ~head.unborn /\ head.tree = index
        /\ NewCommit.parents =
              (IF pre.head.unborn THEN <<>> ELSE <<pre.refs.HEAD.target[1]>>)
        /\ index = pre.index /\ workdir = pre.workdir
        /\ status(Statuses(head, index, workdir)).staged = <<>>
        /\ \A signature \in BOOLEAN :
              ~commit(repo_state, signature, head, index, commits, refs).ok

\* a second commit was made on top of the first while the working directory
\* held a change that was not staged
C24_witness ==
    /\ last.op = "commit" /\ last.ret = "ok"
    /\ ~pre.head.unborn
    /\ NewCommit.parents = <<Len(pre.commits)>>
    /\ pre.index # pre.head.tree
    /\ workdir # index

\* --------------------------------------------------------------- all or nothing
\* C25: a whole-file stage or unstage that fails at one of its paths returns
\* an error and leaves the index as it was before the call, also for the
\* paths that come before the failing one in the list; the working directory
\* is as before.
C25_AllOrNothing ==
    (last.op \in {"stage", "unstage"} /\ last.ret = "err") =>
        (index = pre.index /\ workdir = pre.workdir)

\* stage failed at its second path, which is not in the working directory,
\* after a first path whose file differs from its index entry
C25_witness ==
    /\ last.op = "stage" /\ last.ret = "err"
    /\ Len(last.paths) = 2
    /\ Present(workdir[last.paths[1]])
    /\ workdir[last.paths[1]] # index[last.paths[1]]
    /\ ~Present(workdir[last.paths[2]])

\* ------------------------------------------------------------- concurrent calls
\* what a call that returned Ok should have left in the index for its path
EffectOf(call, p) == IF call.op = "stage" THEN workdir[p] ELSE HeadEntry(p)

\* C26: when two whole-file calls on disjoint path lists, each with its own
\* handle, have both returned Ok, the index holds the effect of each call on
\* each of its paths, however their steps were interleaved.
C26_NoLostUpdate ==
    (\A c \in Callers : calls[c].pc = "done" /\ calls[c].ret = "ok") =>
        \A c \in Callers : \A p \in ToSet(calls[c].paths) :
            index[p] = EffectOf(calls[c], p)

\* ------------------------------------------------------------ failed start_watch
\* C27: a start_watch that fails because its path does not exist leaves the
\* watcher state, and a watcher that runs, as they were; a start_watch that
\* fails later, at the creation of the watcher or at a watch registration,
\* has stopped the watcher that ran, and no watcher is live.
C27_FailedStart ==
    (last.op = "start_watch" /\ last.ret = "err") =>
        IF ~PathExists(last.path) THEN watcher = pre.watcher
        ELSE watcher.slot = None /\ watcher.live = {}

\* start_watch on a path that exists failed while a watcher was running, and
\* that watcher is gone
C27_witness ==
    /\ last.op = "start_watch" /\ last.ret = "err"
    /\ PathExists(last.path)
    /\ pre.watcher.live # {}
    /\ watcher.live = {}

====
